---- MODULE Spec2Model ----
(***************************************************************************)
(* Lexer state of the ECMAScript lexer (ecmascript/parser/src/lexer/       *)
(* state.rs): the token classification, the context stack with its brace   *)
(* rule, State::update and the Iterator::next driver of Lexer.             *)
(*                                                                         *)
(* Tokens are named by their source text ("(", "function", ...); "ident"   *)
(* is a plain identifier other than of, "tpl" a Template token, "num" a    *)
(* numeric literal, "BackQuote" the backtick.  The character scanner       *)
(* (skip_space, read_token, read_tmpl_token, cur_pos) is outside this      *)
(* file: its results are the inputs of the actions.                        *)
(***************************************************************************)
EXTENDS Integers, Sequences, FiniteSets, TLC

(* ---------------------------------------------------------------- bounds *)

\* Deepest context stack explored: a token that would push beyond it is not fed.
MaxDepth == 3

\* Source positions are 0..MaxPos (the start recorded in a Tpl marker).
MaxPos == 0

Positions == 0..MaxPos

(* ---------------------------------------------------------------- tokens *)

Keywords ==
    {"function", "let", "const", "var", "return", "yield", "else",
     "if", "with", "while", "for", "this", "new"}

BinOps == {"<", ">", "/"}

Tokens ==
    Keywords \cup BinOps \cup
    {"ident", "of", "num", "=", "[", "]", "(", ")", "{", "}", "${", "BackQuote",
     "tpl", "++", "--", ".", ":", ";"}

\* Keyword::before_expr (token.rs): keywords after which an expression follows.
KeywordBeforeExpr(k) == k \in {"return", "yield", "else", "new"}

\* BinOpToken::before_expr (token.rs): every binary operator precedes an expression.
BinOpBeforeExpr(b) == TRUE

\* Token::before_expr (token.rs), the per-token-kind constant; it is false of
\* the tokens not named here, of Token::Error ("Error") too.
TokenBeforeExpr(t) ==
    IF t \in Keywords THEN KeywordBeforeExpr(t)
    ELSE IF t \in BinOps THEN BinOpBeforeExpr(t)
    ELSE t \in {"=", "[", "(", "{", "${", "++", "--", ":", ";"}

(* ---------------------------------------------------- TokenType, 24 - 64 *)

None == [tag |-> "None"]

TT(tag) == [tag |-> tag]

TTBinOp(op) == [tag |-> "BinOp", op |-> op]

TTKeyword(k) == [tag |-> "Keyword", k |-> k]

TTOther(b) == [tag |-> "Other", before_expr |-> b]

\* impl From<&Token> for TokenType
TokenTypeFrom(t) ==
    CASE t = "tpl" -> TT("Template")
      [] t = "." -> TT("Dot")
      [] t = ":" -> TT("Colon")
      [] t = "{" -> TT("LBrace")
      [] t = ")" -> TT("RParen")
      [] t = ";" -> TT("Semi")
      [] t \in BinOps -> TTBinOp(t)
      [] t \in Keywords -> TTKeyword(t)
      [] OTHER -> TTOther(TokenBeforeExpr(t))

\* TokenType::before_expr
before_expr(tt) ==
    CASE tt.tag \in {"Template", "Dot", "RParen"} -> FALSE
      [] tt.tag \in {"Colon", "LBrace", "Semi"} -> TRUE
      [] tt.tag = "BinOp" -> BinOpBeforeExpr(tt.op)
      [] tt.tag = "Keyword" -> KeywordBeforeExpr(tt.k)
      [] tt.tag = "Other" -> tt.before_expr

IsKeyword(tt, ks) == tt.tag = "Keyword" /\ tt.k \in ks

TokenTypes == {None} \cup {TokenTypeFrom(t) : t \in Tokens}

(* ------------------------------------------------- enum Type, 372 - 396 *)

BraceStmt == [kind |-> "BraceStmt"]

BraceExpr == [kind |-> "BraceExpr"]

TplQuasi == [kind |-> "TplQuasi"]

ParenStmt(f) == [kind |-> "ParenStmt", is_for_loop |-> f]

ParenExpr == [kind |-> "ParenExpr"]

Tpl(s) == [kind |-> "Tpl", start |-> s]

FnExpr == [kind |-> "FnExpr"]

\* Option<Type>::None, the answer of current() and pop() on an empty stack
NoType == [kind |-> "None"]

\* #[kind(is_expr)]
is_expr(ty) == ty.kind \in {"BraceExpr", "TplQuasi", "ParenExpr", "Tpl", "FnExpr"}

\* #[kind(preserve_space)]
preserve_space(ty) == ty.kind = "Tpl"

(* --------------------------------------------- struct Context, 301 - 370 *)

len(ctx) == Len(ctx)

current(ctx) == IF Len(ctx) = 0 THEN NoType ELSE ctx[Len(ctx)]

push(ctx, ty) == Append(ctx, ty)

\* the stack after pop(); pop() of an empty stack leaves it empty
pop(ctx) == IF Len(ctx) = 0 THEN ctx ELSE SubSeq(ctx, 1, Len(ctx) - 1)

\* is_brace_block with the default answer not negated
is_brace_block_DefaultNotNegated(ctx, prev, had_lb, is_expr_allowed_) ==
    IF prev.tag = "Colon" /\ current(ctx) = BraceStmt THEN TRUE
    ELSE IF prev.tag = "Colon" /\ current(ctx) = BraceExpr THEN FALSE
    ELSE IF IsKeyword(prev, {"return", "yield"}) THEN had_lb
    ELSE IF IsKeyword(prev, {"else"}) \/ prev.tag \in {"Semi", "None", "RParen"} THEN TRUE
    ELSE IF prev.tag = "LBrace" THEN current(ctx) = BraceStmt
    ELSE IF prev.tag = "BinOp" /\ prev.op \in {"<", ">"} THEN TRUE
    ELSE is_expr_allowed_

\* is_brace_block without its first match, on Colon
is_brace_block_NoColonRule(ctx, prev, had_lb, is_expr_allowed_) ==
    IF IsKeyword(prev, {"return", "yield"}) THEN had_lb
    ELSE IF IsKeyword(prev, {"else"}) \/ prev.tag \in {"Semi", "None", "RParen"} THEN TRUE
    ELSE IF prev.tag = "LBrace" THEN current(ctx) = BraceStmt
    ELSE IF prev.tag = "BinOp" /\ prev.op \in {"<", ">"} THEN TRUE
    ELSE ~is_expr_allowed_

\* is_brace_block without the rule for a previous `<` or `>`
is_brace_block_NoLtGt(ctx, prev, had_lb, is_expr_allowed_) ==
    IF prev.tag = "Colon" /\ current(ctx) = BraceStmt THEN TRUE
    ELSE IF prev.tag = "Colon" /\ current(ctx) = BraceExpr THEN FALSE
    ELSE IF IsKeyword(prev, {"return", "yield"}) THEN had_lb
    ELSE IF IsKeyword(prev, {"else"}) \/ prev.tag \in {"Semi", "None", "RParen"} THEN TRUE
    ELSE IF prev.tag = "LBrace" THEN current(ctx) = BraceStmt
    ELSE ~is_expr_allowed_

is_brace_block(ctx, prev, had_lb, is_expr_allowed_) ==
    IF prev.tag = "Colon" /\ current(ctx) = BraceStmt THEN TRUE
    ELSE IF prev.tag = "Colon" /\ current(ctx) = BraceExpr THEN FALSE
    ELSE IF IsKeyword(prev, {"return", "yield"}) THEN had_lb
    ELSE IF IsKeyword(prev, {"else"}) \/ prev.tag \in {"Semi", "None", "RParen"} THEN TRUE
    ELSE IF prev.tag = "LBrace" THEN current(ctx) = BraceStmt
    ELSE IF prev.tag = "BinOp" /\ prev.op \in {"<", ">"} THEN TRUE
    ELSE ~is_expr_allowed_

(* ------------------------- State::is_expr_allowed_on_next, 172 - 298 *)

\* What the function hands back: its return value and the context stack it
\* leaves; panic marks an unwrap()/expect() that found None.
Ret(b, ctx) == [ret |-> b, context |-> ctx, panic |-> FALSE]

Panicked(ctx) == [ret |-> FALSE, context |-> ctx, panic |-> TRUE]

\* the closer arm without the test of depth 1
on_close_NoDepthGuard(ctx) ==
    IF len(ctx) = 0 THEN Panicked(ctx)
    ELSE LET out == current(ctx)
             rest == pop(ctx)
         IN  IF out = BraceStmt /\ current(rest) = FnExpr THEN Ret(FALSE, pop(rest))
             ELSE IF out = TplQuasi THEN Ret(TRUE, rest)
             ELSE Ret(~is_expr(out), rest)

\* the closer arm that leaves FnExpr on the stack
on_close_NoFnPop(ctx) ==
    IF len(ctx) = 1 THEN Ret(TRUE, ctx)
    ELSE IF len(ctx) = 0 THEN Panicked(ctx)
    ELSE LET out == current(ctx)
             rest == pop(ctx)
         IN  IF out = BraceStmt /\ current(rest) = FnExpr THEN Ret(FALSE, rest)
             ELSE IF out = TplQuasi THEN Ret(TRUE, rest)
             ELSE Ret(~is_expr(out), rest)

\* the closer arm without the case of TplQuasi
on_close_QuasiAsExpr(ctx) ==
    IF len(ctx) = 1 THEN Ret(TRUE, ctx)
    ELSE IF len(ctx) = 0 THEN Panicked(ctx)
    ELSE LET out == current(ctx)
             rest == pop(ctx)
         IN  IF out = BraceStmt /\ current(rest) = FnExpr THEN Ret(FALSE, pop(rest))
             ELSE Ret(~is_expr(out), rest)

\* tok!(')') | tok!('}')
on_close(ctx) ==
    IF len(ctx) = 1 THEN Ret(TRUE, ctx)
    ELSE IF len(ctx) = 0 THEN Panicked(ctx)
    ELSE LET out == current(ctx)
             rest == pop(ctx)
         IN  IF out = BraceStmt /\ current(rest) = FnExpr THEN Ret(FALSE, pop(rest))
             ELSE IF out = TplQuasi THEN Ret(TRUE, rest)
             ELSE Ret(~is_expr(out), rest)

\* the function arm that never pushes FnExpr
on_function_NeverPush(ctx, prev, had_lb, is_expr_allowed_) == Ret(FALSE, ctx)

\* tok!("function")
on_function(ctx, prev, had_lb, is_expr_allowed_) ==
    IF is_expr_allowed_ /\ ~is_brace_block(ctx, prev, had_lb, is_expr_allowed_)
    THEN Ret(FALSE, push(ctx, FnExpr))
    ELSE Ret(FALSE, ctx)

\* the of arm with the negation dropped
on_for_of_NotNegated(ctx, prev) ==
    IF prev = None THEN Panicked(ctx) ELSE Ret(before_expr(prev), ctx)

\* tok!("of") if Some(Type::ParenStmt { is_for_loop: true }) == context.current()
on_for_of(ctx, prev) ==
    IF prev = None THEN Panicked(ctx) ELSE Ret(~before_expr(prev), ctx)

\* the identifier arm that looks at the line break alone
on_ident_IgnorePrev(ctx, prev, had_lb) == Ret(had_lb, ctx)

\* the identifier arm without its guard, if had_line_break
on_ident_IgnoreLineBreak(ctx, prev, had_lb) ==
    Ret(IsKeyword(prev, {"let", "const", "var"}), ctx)

\* Word(Ident(ref ident))
on_ident(ctx, prev, had_lb) ==
    Ret(IsKeyword(prev, {"let", "const", "var"}) /\ had_lb, ctx)

\* tok!('{')
on_lbrace(ctx, prev, had_lb, is_expr_allowed_) ==
    Ret(TRUE, push(ctx, IF is_brace_block(ctx, prev, had_lb, is_expr_allowed_)
                        THEN BraceStmt ELSE BraceExpr))

\* tok!("${")
on_dollar_lbrace(ctx) == Ret(TRUE, push(ctx, TplQuasi))

\* tok!('(')
on_lparen(ctx, prev) ==
    Ret(TRUE, push(ctx, IF IsKeyword(prev, {"if", "with", "while"}) THEN ParenStmt(FALSE)
                        ELSE IF IsKeyword(prev, {"for"}) THEN ParenStmt(TRUE)
                        ELSE ParenExpr))

\* an arm for ++ and -- that answers as the other operators do
on_incdec_BeforeExpr(ctx, is_expr_allowed_) == Ret(TRUE, ctx)

\* tok!("++") | tok!("--")
on_incdec(ctx, is_expr_allowed_) == Ret(is_expr_allowed_, ctx)

\* the backtick arm that opens a template whatever is on top
on_backquote_AlwaysPush(ctx, start) == Ret(FALSE, push(ctx, Tpl(start)))

\* tok!('`')
on_backquote(ctx, start) ==
    IF current(ctx).kind = "Tpl" THEN Ret(FALSE, pop(ctx))
    ELSE Ret(FALSE, push(ctx, Tpl(start)))

\* the match without the rule for a keyword after Dot
is_expr_allowed_on_next_NoDotRule(ctx, prev, start, next, had_lb, is_expr_allowed_) ==
    IF next \in {")", "}"} THEN on_close(ctx)
    ELSE IF next = "function" THEN on_function(ctx, prev, had_lb, is_expr_allowed_)
    ELSE IF next = "of" /\ current(ctx) = ParenStmt(TRUE) THEN on_for_of(ctx, prev)
    ELSE IF next \in {"ident", "of"} THEN on_ident(ctx, prev, had_lb)
    ELSE IF next = "{" THEN on_lbrace(ctx, prev, had_lb, is_expr_allowed_)
    ELSE IF next = "${" THEN on_dollar_lbrace(ctx)
    ELSE IF next = "(" THEN on_lparen(ctx, prev)
    ELSE IF next \in {"++", "--"} THEN on_incdec(ctx, is_expr_allowed_)
    ELSE IF next = "BackQuote" THEN on_backquote(ctx, start)
    ELSE Ret(TokenBeforeExpr(next), ctx)

\* State::is_expr_allowed_on_next
is_expr_allowed_on_next(ctx, prev, start, next, had_lb, is_expr_allowed_) ==
    IF next \in Keywords /\ prev = TT("Dot") THEN Ret(FALSE, ctx)
    ELSE IF next \in {")", "}"} THEN on_close(ctx)
    ELSE IF next = "function" THEN on_function(ctx, prev, had_lb, is_expr_allowed_)
    ELSE IF next = "of" /\ current(ctx) = ParenStmt(TRUE) THEN on_for_of(ctx, prev)
    ELSE IF next \in {"ident", "of"} THEN on_ident(ctx, prev, had_lb)
    ELSE IF next = "{" THEN on_lbrace(ctx, prev, had_lb, is_expr_allowed_)
    ELSE IF next = "${" THEN on_dollar_lbrace(ctx)
    ELSE IF next = "(" THEN on_lparen(ctx, prev)
    ELSE IF next \in {"++", "--"} THEN on_incdec(ctx, is_expr_allowed_)
    ELSE IF next = "BackQuote" THEN on_backquote(ctx, start)
    ELSE Ret(TokenBeforeExpr(next), ctx)

(* ------------------------------------------------------------- the state *)

VARIABLES
    is_expr_allowed,   \* State.is_expr_allowed
    had_line_break,    \* State.had_line_break
    is_first,          \* State.is_first
    context,           \* State.context, bottom of the stack first
    token_type,        \* State.token_type, None or a TokenType
    item,              \* what the last call fed or yielded: a token, "Error", "Eof"; "NoCall" before it
    panicked,          \* an unwrap()/expect() of update found None: the thread is gone
    popped,            \* history: the markers the last update popped, the top one first
    open,              \* history: the openers not yet closed, each with the depth before it
    matched,           \* history: the depth before the opener the last token closed, else -1
    call,              \* history: whether the last call of next ran the skipper, and its scan path
    prog,              \* the token sequence being lexed (SpecProg), else empty
    pc                 \* index in prog of the next token to scan (SpecProg), else 0

vars ==
    <<is_expr_allowed, had_line_break, is_first, context, token_type, item,
      panicked, popped, open, matched, call, prog, pc>>

\* the variables that only record what happened
history == <<popped, open, matched>>

\* impl Default for State
StateDefault ==
    /\ is_expr_allowed = TRUE
    /\ is_first = TRUE
    /\ had_line_break = FALSE
    /\ context = <<BraceStmt>>
    /\ token_type = None
    /\ item = "NoCall"
    /\ panicked = FALSE
    /\ popped = <<>>
    /\ open = <<>>
    /\ matched = -1
    /\ call = [skip |-> FALSE, scan |-> "none", seed |-> -1]

Init ==
    /\ StateDefault
    /\ prog = <<>>
    /\ pc = 0

\* a skipper that runs whatever is on top of the stack
can_skip_space_Always == TRUE

\* State::can_skip_space
can_skip_space == ~(IF current(context) = NoType THEN FALSE ELSE preserve_space(current(context)))

\* State::last_was_tpl_element
last_was_tpl_element == token_type = TT("Template")

\* The openers a closer closes in well-formed input.
Openers == {"(", "{", "${"}

Closers == {")", "}"}

OpenersOf(closer) == IF closer = ")" THEN {"("} ELSE {"{", "${"}

\* next closes the innermost open opener
Matches(next) ==
    /\ next \in Closers
    /\ open # <<>>
    /\ open[Len(open)].tok \in OpenersOf(next)

\* the markers of old that new no longer holds, the top one first
PoppedOf(old, new) ==
    IF Len(new) >= Len(old) THEN <<>>
    ELSE [i \in 1..(Len(old) - Len(new)) |-> old[Len(old) + 1 - i]]

\* The nesting history of a token: an opener is recorded with the depth before
\* it, a closer takes its opener off; a closer that closes nothing ends the
\* nesting.
Track(next) ==
    /\ matched' = IF Matches(next) THEN open[Len(open)].depth ELSE -1
    /\ open' = IF next \in Openers THEN Append(open, [tok |-> next, depth |-> Len(context)])
               ELSE IF Matches(next) THEN SubSeq(open, 1, Len(open) - 1)
               ELSE IF next \in Closers THEN <<>>
               ELSE open

NoTrack == UNCHANGED <<open, matched>>

\* an update that takes the previous classification and stores it back,
\* never the new token's
update_KeepTokenType(start, next, had_lb) ==
    LET prev == token_type
        r == is_expr_allowed_on_next(context, prev, start, next, had_lb, is_expr_allowed)
    IN  /\ token_type' = prev
        /\ context' = r.context
        /\ panicked' = r.panic
        /\ is_expr_allowed' = IF r.panic THEN is_expr_allowed ELSE r.ret
        /\ popped' = PoppedOf(context, r.context)

\* State::update, with self.had_line_break as its caller left it
update(start, next, had_lb) ==
    LET prev == token_type
        r == is_expr_allowed_on_next(context, prev, start, next, had_lb, is_expr_allowed)
    IN  /\ token_type' = TokenTypeFrom(next)
        /\ context' = r.context
        /\ panicked' = r.panic
        /\ is_expr_allowed' = IF r.panic THEN is_expr_allowed ELSE r.ret
        /\ popped' = PoppedOf(context, r.context)

(* ----------------------------------- Iterator for Lexer: next, 66 - 120 *)

\* What read_tmpl_token can produce: raw text, or one of the two boundaries.
TplScanTokens == {"tpl", "${", "BackQuote"}

\* What read_token can produce: every token but those of template text.
OrdinaryScanTokens == Tokens \ {"tpl", "${"}

ScanTokens == IF current(context).kind = "Tpl" THEN TplScanTokens ELSE OrdinaryScanTokens

\* had_line_break once the skipper has run (or not): lb says its input held a newline
LineBreakSeen(lb) == is_first \/ (can_skip_space /\ lb)

\* The call returns from the skipper: the skipper ran, no scan path was taken.
SkipOnly == [skip |-> TRUE, scan |-> "none", seed |-> -1]

\* The call reaches the scan: the skipper ran if can_skip_space(), and the scan
\* path is read_tmpl_token(start) if the top of the stack is Tpl { start },
\* read_token() otherwise.
Scanned ==
    [skip |-> can_skip_space,
     scan |-> IF current(context).kind = "Tpl" THEN "template" ELSE "ordinary",
     seed |-> IF current(context).kind = "Tpl" THEN current(context).start ELSE -1]

\* a skipper failure that runs the update against its error token
NextSkipError_RunsUpdate ==
    /\ ~panicked
    /\ can_skip_space
    /\ \E lb \in BOOLEAN :
          /\ had_line_break' = LineBreakSeen(lb)
          /\ update(0, "Error", LineBreakSeen(lb))
    /\ is_first' = FALSE
    /\ item' = "Error"
    /\ call' = SkipOnly
    /\ NoTrack
    /\ UNCHANGED <<prog, pc>>

\* a skipper failure that takes token_type as update does and returns before
\* the store
NextSkipError_TakesTokenType ==
    /\ ~panicked
    /\ can_skip_space
    /\ \E lb \in BOOLEAN : had_line_break' = LineBreakSeen(lb)
    /\ is_first' = FALSE
    /\ item' = "Error"
    /\ call' = SkipOnly
    /\ token_type' = None
    /\ UNCHANGED <<is_expr_allowed, context, panicked, history, prog, pc>>

\* skip_space fails: the error token is returned at once
NextSkipError ==
    /\ ~panicked
    /\ can_skip_space
    /\ \E lb \in BOOLEAN : had_line_break' = LineBreakSeen(lb)
    /\ is_first' = FALSE
    /\ item' = "Error"
    /\ call' = SkipOnly
    /\ UNCHANGED <<is_expr_allowed, context, token_type, panicked, history, prog, pc>>

\* read_token / read_tmpl_token fails: the token is Some(Token::Error(err)), and
\* update is called with it as with any token
NextScanError ==
    /\ ~panicked
    /\ \E lb \in BOOLEAN, start \in Positions :
          /\ had_line_break' = LineBreakSeen(lb)
          /\ update(start, "Error", LineBreakSeen(lb))
    /\ is_first' = FALSE
    /\ item' = "Error"
    /\ call' = Scanned
    /\ NoTrack
    /\ UNCHANGED <<prog, pc>>

\* read_token answers Ok(None): the end of the input
NextEof ==
    /\ ~panicked
    /\ current(context).kind # "Tpl"
    /\ \E lb \in BOOLEAN : had_line_break' = LineBreakSeen(lb)
    /\ is_first' = FALSE
    /\ item' = "Eof"
    /\ call' = Scanned
    /\ UNCHANGED <<is_expr_allowed, context, token_type, panicked, history, prog, pc>>

\* The positions a token may start at; only the backtick arm reads start, so
\* the other tokens are put at position 0.
StartsOf(tok) == IF tok = "BackQuote" THEN Positions ELSE {0}

\* the scan yields token tok at position start
Yield(tok, lb, start) ==
    /\ ~panicked
    /\ tok \in ScanTokens
    /\ had_line_break' = LineBreakSeen(lb)
    /\ is_first' = FALSE
    /\ update(start, tok, LineBreakSeen(lb))
    /\ item' = tok

NextToken ==
    /\ \E tok \in Tokens, lb \in BOOLEAN : \E start \in StartsOf(tok) : Yield(tok, lb, start)
    /\ Len(context') <= MaxDepth
    /\ call' = Scanned
    /\ NoTrack
    /\ UNCHANGED <<prog, pc>>

Next == NextSkipError \/ NextScanError \/ NextEof \/ NextToken

Spec == Init /\ [][Next]_vars

(* ------------------------------------- State::update fed tokens directly *)

\* update(start, next) called with any token, whatever the stack holds
UpdateCall ==
    /\ ~panicked
    /\ \E next \in Tokens, had_lb \in BOOLEAN : \E start \in StartsOf(next) :
          /\ had_line_break' = had_lb
          /\ update(start, next, had_lb)
          /\ item' = next
    /\ Len(context') <= MaxDepth
    /\ NoTrack
    /\ UNCHANGED <<is_first, call, prog, pc>>

SpecUpdate == Init /\ [][UpdateCall]_vars

(* -------------------------------------- the lexer with the nesting history *)

\* One token of each kind the update algorithm tells apart: each arm of its
\* match, and each previous classification is_brace_block and the arms read.
NestingTokens ==
    {"(", ")", "{", "}", "${", "BackQuote", "tpl", "function", "ident", "of",
     "=", ":", ";", ".", "<", "++", "return", "else", "let", "if", "for"}

\* Lexer::next yields a token; which opener each closer closes is recorded
NextNested ==
    /\ \E tok \in NestingTokens, lb \in BOOLEAN : \E start \in StartsOf(tok) :
          /\ Yield(tok, lb, start)
          /\ Track(tok)
    /\ Len(context') <= MaxDepth
    /\ UNCHANGED <<call, prog, pc>>

SpecNesting == Init /\ [][NextNested]_vars

TypeOK ==
    /\ is_expr_allowed \in BOOLEAN
    /\ had_line_break \in BOOLEAN
    /\ is_first \in BOOLEAN
    /\ token_type \in TokenTypes
    /\ item \in Tokens \cup {"Error", "Eof", "NoCall"}
    /\ call.scan \in {"none", "ordinary", "template"}
    /\ Len(context) <= MaxDepth

(* ------------------------------------------- the lexer run over programs *)

\* A scanned token: its name and whether a newline precedes it in the input.
T(tok) == [tok |-> tok, lb |-> FALSE]

NL(tok) == [tok |-> tok, lb |-> TRUE]

Line(toks) == [i \in 1..Len(toks) |-> T(toks[i])]

\* let f = function(){}/42/i
P_FnExprDiv == Line(<<"let", "ident", "=", "function", "(", ")", "{", "}", "/", "num", "/", "ident">>)

\* function f() { }
P_FnDecl == Line(<<"function", "ident", "(", ")", "{", "}">>)

\* let o = { }
P_LetObj == Line(<<"let", "ident", "=", "{", "}">>)

\* { a: {} }
P_Block == Line(<<"{", "ident", ":", "{", "}", "}">>)

\* x = { a: {} }
P_ObjInObj == Line(<<"ident", "=", "{", "ident", ":", "{", "}", "}">>)

\* `a${ `b${c}` }d`
P_Template ==
    Line(<<"BackQuote", "tpl", "${", "BackQuote", "tpl", "${", "ident", "}",
           "BackQuote", "}", "tpl", "BackQuote">>)

\* the same, the scanner yielding the empty text after the inner interpolation
P_TemplateEmptyQuasi ==
    Line(<<"BackQuote", "tpl", "${", "BackQuote", "tpl", "${", "ident", "}", "tpl",
           "BackQuote", "}", "tpl", "BackQuote">>)

\* let x = 1, on one line and with a newline after let
P_LetSameLine == Line(<<"let", "ident", "=", "num", ";">>)

P_LetNewLine == <<T("let"), NL("ident"), T("="), T("num"), T(";")>>

\* for (a of b) {}
P_ForOf == Line(<<"for", "(", "ident", "of", "ident", ")", "{", "}">>)

\* a / b ; return /x/ (the scanner reads the regex as one literal)
P_Div == Line(<<"ident", "/", "ident", ";", "return", "num">>)

\* obj.if(x)
P_DotIf == Line(<<"ident", ".", "if", "(", "ident", ")", "/", "num">>)

\* for ({a} of b) ;
P_ForOfPattern == Line(<<"for", "(", "{", "ident", "}", "of", "ident", ")", ";">>)

\* return {} and return, newline, {}
P_ReturnObj == Line(<<"return", "{", "}">>)

P_ReturnBlock == <<T("return"), NL("{"), T("}")>>

\* ; function f() { }
P_SemiFn == Line(<<";", "function", "ident", "(", ")", "{", "}">>)

\* { function f() { } }
P_BlockFn == Line(<<"{", "function", "ident", "(", ")", "{", "}", "}">>)

\* { } function f() { }
P_BlockThenFn == Line(<<"{", "}", "function", "ident", "(", ")", "{", "}">>)

\* function a() { } function b() { }
P_FnThenFn ==
    Line(<<"function", "ident", "(", ")", "{", "}", "function", "ident", "(", ")", "{", "}">>)

Programs ==
    {P_FnExprDiv, P_FnDecl, P_LetObj, P_Block, P_ObjInObj, P_Template,
     P_TemplateEmptyQuasi, P_LetSameLine, P_LetNewLine, P_ForOf, P_Div, P_DotIf,
     P_ForOfPattern, P_ReturnObj, P_ReturnBlock, P_SemiFn, P_BlockFn,
     P_BlockThenFn, P_FnThenFn}

InitProg ==
    /\ StateDefault
    /\ prog \in Programs
    /\ pc = 1

\* Lexer::next scans the next token of the program; its position is its index
ProgStep ==
    /\ pc \in 1..Len(prog)
    /\ Yield(prog[pc].tok, prog[pc].lb, pc - 1)
    /\ Track(prog[pc].tok)
    /\ pc' = pc + 1
    /\ UNCHANGED <<call, prog>>

SpecProg == InitProg /\ [][ProgStep]_vars

\* the tokens of prog already yielded
Done(p, n) == prog = p /\ pc = n + 1

(* ------------------------------------- is_brace_block on every combination *)

\* every marker of enum Type
Markers ==
    {BraceStmt, BraceExpr, TplQuasi, ParenStmt(FALSE), ParenStmt(TRUE), ParenExpr, FnExpr}
        \cup {Tpl(p) : p \in Positions}

\* The state is_brace_block reads, in every combination: the previous
\* classification, the top of the stack above the BraceStmt the stack starts
\* with, had_line_break and is_expr_allowed.
InitBraceRule ==
    /\ is_first = FALSE
    /\ item = "NoCall"
    /\ panicked = FALSE
    /\ popped = <<>>
    /\ open = <<>>
    /\ matched = -1
    /\ call = [skip |-> FALSE, scan |-> "none", seed |-> -1]
    /\ prog = <<>>
    /\ pc = 0
    /\ \E tt \in TokenTypes, hlb \in BOOLEAN, iea \in BOOLEAN,
          ctx \in {<<BraceStmt>>} \cup {<<BraceStmt, m>> : m \in Markers} :
          /\ token_type = tt
          /\ had_line_break = hlb
          /\ is_expr_allowed = iea
          /\ context = ctx

\* State::update for a `{`: the arm asks is_brace_block and pushes its answer
BraceCall ==
    /\ ~panicked
    /\ update(0, "{", had_line_break)
    /\ item' = "{"
    /\ Len(context') <= MaxDepth
    /\ NoTrack
    /\ UNCHANGED <<had_line_break, is_first, call, prog, pc>>

SpecBraceRule == InitBraceRule /\ [][BraceCall]_vars

(* ================================================================ claims *)

\* the marker that lay beneath the top one before the last update popped
Beneath == IF Len(popped) >= 2 THEN popped[2] ELSE current(context)

\* the last token closed the body of a function expression
ClosedFnBody == popped # <<>> /\ popped[1] = BraceStmt /\ Beneath = FnExpr

LetConstVar == {"let", "const", "var"}

Kinds(ctx) == [i \in 1..Len(ctx) |-> ctx[i].kind]

\* C1: whatever tokens update is fed, the context stack is never empty, its
\* bottom element is the seeded BraceStmt, and the unwrap of the closer branch
\* never panics.
C1_StackNeverEmpty ==
    /\ Len(context) >= 1
    /\ context[1] = BraceStmt
    /\ ~panicked

\* a closer arrived at depth 1 and popped nothing
C1_Witness == item \in Closers /\ popped = <<>> /\ Len(context) = 1 /\ matched = -1

C3_Original ==
    Done(P_FnExprDiv, 8) => (popped = <<BraceStmt, FnExpr>> /\ is_expr_allowed = TRUE)

\* C3 amended: after the } of let f = function ( ) { } the FnExpr marker is
\* popped, the stack is back to the seed, and no expression is expected: the
\* / that follows is a division.
C3_FnExprBodyClosed ==
    Done(P_FnExprDiv, 8) =>
        /\ popped = <<BraceStmt, FnExpr>>
        /\ context = <<BraceStmt>>
        /\ is_expr_allowed = FALSE

C3_Witness == Done(P_FnExprDiv, 8) /\ item = "}" /\ token_type = TTOther(FALSE)

\* C4: a closer at depth > 1 that pops BraceStmt off FnExpr pops FnExpr too and
\* yields false; any other closer at depth > 1 pops one marker and yields true
\* for TplQuasi, else the negation of the popped marker's is_expr.
C4_CloserRule ==
    [][(item' \in Closers /\ Len(context) > 1) =>
        LET out == current(context)
            rest == pop(context)
        IN  IF out = BraceStmt /\ current(rest) = FnExpr
            THEN /\ Len(context') = Len(context) - 2
                 /\ context' = pop(rest)
                 /\ is_expr_allowed' = FALSE
            ELSE /\ context' = rest
                 /\ is_expr_allowed' = (IF out = TplQuasi THEN TRUE ELSE ~is_expr(out))]_vars

\* a } closed an interpolation: TplQuasi popped, an expression expected
C4_Witness == item = "}" /\ popped = <<TplQuasi>> /\ is_expr_allowed

\* C5: after a plain identifier that does not follow let/const/var and a line
\* break no expression is expected; after return that does not follow a dot
\* an expression is expected.
C5_RegexOrDivision ==
    [][/\ (item' = "ident" /\ ~(IsKeyword(token_type, LetConstVar) /\ had_line_break'))
            => ~is_expr_allowed'
       /\ (item' = "return" /\ token_type # TT("Dot")) => is_expr_allowed']_vars

C5_Witness == item = "return" /\ is_expr_allowed /\ Len(context) = 1

\* C6: in function f ( ) { the { pushes BraceStmt and the leading function
\* pushes no FnExpr; in let o = { the { pushes BraceExpr.
C6_BraceKinds ==
    /\ Done(P_FnDecl, 1) => context = <<BraceStmt>>
    /\ Done(P_FnDecl, 5) => context = <<BraceStmt, BraceStmt>>
    /\ Done(P_LetObj, 4) => context = <<BraceStmt, BraceExpr>>

C6_Witness == Done(P_LetObj, 4) /\ item = "{" /\ current(context) = BraceExpr

\* C7 as stated: in { a : { } } the outer { is BraceStmt in statement position
\* and the inner { after : is BraceExpr, in statement position as well as in
\* expression position.
C7_Original ==
    /\ Done(P_Block, 1) => current(context) = BraceStmt
    /\ Done(P_ObjInObj, 3) => current(context) = BraceExpr
    /\ Done(P_Block, 4) => current(context) = BraceExpr
    /\ Done(P_ObjInObj, 6) => current(context) = BraceExpr

\* C7 amended: the outer { is BraceStmt in statement position and BraceExpr in
\* expression position, and the inner { after : takes the kind of the brace
\* around it: BraceStmt in { a : { } }, BraceExpr in x = { a : { } }.
C7_InnerBraceFollowsOuter ==
    /\ Done(P_Block, 1) => context = <<BraceStmt, BraceStmt>>
    /\ Done(P_ObjInObj, 3) => context = <<BraceStmt, BraceExpr>>
    /\ Done(P_Block, 4) => context = <<BraceStmt, BraceStmt, BraceStmt>>
    /\ Done(P_ObjInObj, 6) => context = <<BraceStmt, BraceExpr, BraceExpr>>

C7_Witness == Done(P_Block, 4) /\ item = "{" /\ token_type = TT("LBrace")

\* C8: a plain identifier yields true exactly when the previous classification
\* is keyword let, const or var and a line break precedes the identifier, and
\* it leaves the context stack as it was.
C8_IdentAfterDeclaration ==
    [][item' = "ident" =>
        /\ is_expr_allowed' = (IsKeyword(token_type, LetConstVar) /\ had_line_break')
        /\ context' = context]_vars

C8_Witness == item = "ident" /\ is_expr_allowed /\ had_line_break

\* C9: of with ParenStmt{is_for_loop: true} on top yields the negation of the
\* previous classification's before_expr, true after an identifier and after
\* the closer of a pattern; with anything else on top it is a plain identifier.
C9_ForOf ==
    [][item' = "of" =>
        IF current(context) = ParenStmt(TRUE)
        THEN /\ is_expr_allowed' = ~before_expr(token_type)
             /\ item \in {"ident", ")", "}", "]"} => is_expr_allowed'
             /\ ~panicked'
        ELSE is_expr_allowed' = (IsKeyword(token_type, LetConstVar) /\ had_line_break')]_vars

C9_Witness == item = "of" /\ current(context) = ParenStmt(TRUE) /\ is_expr_allowed

\* the stack kinds and can_skip_space() of `a${ `b${c}` }d` after n tokens
C10_Stacks ==
    <<  <<"BraceStmt">>,
        <<"BraceStmt", "Tpl">>,
        <<"BraceStmt", "Tpl">>,
        <<"BraceStmt", "Tpl", "TplQuasi">>,
        <<"BraceStmt", "Tpl", "TplQuasi", "Tpl">>,
        <<"BraceStmt", "Tpl", "TplQuasi", "Tpl">>,
        <<"BraceStmt", "Tpl", "TplQuasi", "Tpl", "TplQuasi">>,
        <<"BraceStmt", "Tpl", "TplQuasi", "Tpl", "TplQuasi">>,
        <<"BraceStmt", "Tpl", "TplQuasi", "Tpl">>,
        <<"BraceStmt", "Tpl", "TplQuasi">>,
        <<"BraceStmt", "Tpl">>,
        <<"BraceStmt", "Tpl">>,
        <<"BraceStmt">>  >>

C10_SkipSpace ==
    <<TRUE, FALSE, FALSE, TRUE, FALSE, FALSE, TRUE, TRUE, FALSE, TRUE, FALSE, FALSE, TRUE>>

\* C10: over `a${ `b${c}` }d` each backtick that closes pops the Tpl its
\* opening backtick pushed, each } pops the TplQuasi of its ${, the stack ends
\* at depth 1, and can_skip_space() is false in the raw text and true inside
\* the interpolations.
C10_TemplateRoundTrip ==
    \A n \in 0..Len(P_Template) :
        Done(P_Template, n) =>
            /\ Kinds(context) = C10_Stacks[n + 1]
            /\ can_skip_space = C10_SkipSpace[n + 1]
            /\ n \in {8, 10} => popped = <<TplQuasi>>
            /\ n = 9 => popped = <<Tpl(3)>>
            /\ n = 12 => popped = <<Tpl(0)>> /\ Len(context) = 1

C10_Witness == Done(P_Template, 12) /\ item = "BackQuote" /\ context = <<BraceStmt>>


(* ------------------------------------------------------ the lexer's calls *)

\* The calls of Lexer::next by what they ran, read off the history `call` and
\* the item the call returned.
SkipperFailed == call.scan = "none" /\ item = "Error"

ScanFailed == call.scan # "none" /\ item = "Error"

\* C11 as stated: token_type is None only before the first token is produced;
\* after any call of Lexer::next that yields a token, an ordinary token or an
\* error token, token_type is Some.
C11_Original ==
    item \in Tokens \cup {"Error"} => token_type # None

\* C11 as the code has it: token_type is Some after every call of Lexer::next
\* that reaches State::update (a scanned token, or the error token of a failed
\* scan), and once Some it never returns to None; a call that ends at the
\* skipper's failure or at the end of the input leaves token_type as it was,
\* None included.
C11_SomeOnceUpdated ==
    [][ /\ (call'.scan # "none" /\ item' # "Eof") => token_type' # None
        /\ (call'.scan = "none" \/ item' = "Eof") => token_type' = token_type
        /\ token_type # None => token_type' # None ]_vars

\* The first token is the error token of a failed scan, and token_type is Some.
C11_Witness ==
    /\ ScanFailed
    /\ token_type = TTOther(FALSE)
    /\ context = <<BraceStmt>>

\* C12 as stated: when read_token / read_tmpl_token fails and Lexer::next
\* yields an error token, is_expr_allowed, token_type and the context stack
\* are the same after the call as before it.
C12_ScanErrorLeavesState ==
    [][ (call'.scan # "none" /\ item' = "Error") =>
            /\ is_expr_allowed' = is_expr_allowed
            /\ token_type' = token_type
            /\ context' = context ]_vars

\* C13: a call of Lexer::next in which the skipper fails yields the error
\* token without a scan and without State::update: is_expr_allowed,
\* token_type and the context stack are unchanged; and the lexer goes on, a
\* later call can still produce a token.
C13_SkipErrorLeavesState ==
    [][ (call'.scan = "none" /\ item' = "Error") =>
            /\ call'.skip
            /\ is_expr_allowed' = is_expr_allowed
            /\ token_type' = token_type
            /\ context' = context ]_vars
    /\ [](SkipperFailed => ~panicked /\ ENABLED NextToken)

\* The skipper failed inside a `for (` head, with an expression expected: the
\* state is the one `(` left.
C13_Witness ==
    /\ SkipperFailed
    /\ context = <<BraceStmt, ParenStmt(TRUE)>>
    /\ token_type = TTOther(TRUE)
    /\ is_expr_allowed

\* C14: when the new token is a keyword, `function` included, and the previous
\* classification is Dot, the update sets is_expr_allowed to false and leaves
\* the context stack unchanged, whatever had_line_break and is_expr_allowed were.
C14_KeywordAfterDot ==
    [][ (item' \in Keywords /\ token_type = TT("Dot")) =>
            /\ ~is_expr_allowed'
            /\ context' = context
            /\ ~panicked' ]_vars

\* `function` came right after a Dot inside a parenthesis: nothing was pushed.
C14_Witness ==
    /\ item = "function"
    /\ token_type = TTKeyword("function")
    /\ popped = <<>>
    /\ context = <<BraceStmt, ParenExpr>>
    /\ ~is_expr_allowed

\* C18: an update for `++` or `--` leaves is_expr_allowed equal to its
\* previous value and the context stack unchanged; only token_type changes.
C18_IncDecKeepsState ==
    [][ item' \in {"++", "--"} =>
            /\ is_expr_allowed' = is_expr_allowed
            /\ context' = context
            /\ token_type' = TTOther(TRUE)
            /\ ~panicked' ]_vars

\* A postfix `++` inside a parenthesis, where no expression was expected.
C18_Witness ==
    /\ item = "++"
    /\ ~is_expr_allowed
    /\ token_type = TTOther(TRUE)
    /\ context = <<BraceStmt, ParenExpr>>

\* The function declarations of the programs: the program, the index of the
\* `function` keyword and the index of the `}` that closes the body.
Declarations ==
    {<<P_FnDecl, 1, 6>>, <<P_SemiFn, 2, 7>>, <<P_BlockFn, 2, 7>>,
     <<P_BlockThenFn, 3, 8>>, <<P_FnThenFn, 1, 6>>, <<P_FnThenFn, 7, 12>>}

\* C15 as stated: a `function` keyword that begins a declaration in statement
\* position (first token, after `;`, after the `{` of a statement block, after
\* the `}` of a statement block or of a previous declaration) pushes no FnExpr,
\* and the `}` of its body pops BraceStmt alone and sets is_expr_allowed.
C15_DeclarationPushesNoFnExpr ==
    \A d \in Declarations :
        /\ Done(d[1], d[2]) => current(context) # FnExpr
        /\ Done(d[1], d[3]) => popped = <<BraceStmt>> /\ is_expr_allowed

\* C20 as stated: a `(` that comes after `.if` (obj.if(x)) pushes ParenExpr,
\* not ParenStmt, so that after the matching `)` no expression is expected.
C20_ParenAfterDotKeyword ==
    /\ Done(P_DotIf, 4) => current(context) = ParenExpr
    /\ Done(P_DotIf, 6) => popped = <<ParenExpr>> /\ ~is_expr_allowed

\* The six rules of C16, the first that applies decides: is the `{` that
\* follows prev, with top on the stack, the start of a block?
SixRules(prev, top, hlb, iea) ==
    CASE prev = TT("Colon") /\ top = BraceStmt -> TRUE
      [] prev = TT("Colon") /\ top = BraceExpr -> FALSE
      [] OTHER ->
           CASE prev \in {TTKeyword("return"), TTKeyword("yield")} -> hlb
             [] prev \in {TTKeyword("else"), TT("Semi"), None, TT("RParen")} -> TRUE
             [] prev = TT("LBrace") -> top = BraceStmt
             [] prev \in {TTBinOp("<"), TTBinOp(">")} -> TRUE
             [] OTHER -> ~iea

\* C16: for every previous classification (None too), top-of-stack marker,
\* had_line_break and is_expr_allowed, is_brace_block answers as the six
\* prioritised rules do, and it leaves the stack alone: the `{` arm pushes
\* BraceStmt on the stack as it was if the rules say block, BraceExpr if not.
C16_SixRules ==
    [][ item' = "{" =>
            /\ context' = Append(context,
                    IF SixRules(token_type, current(context), had_line_break, is_expr_allowed)
                    THEN BraceStmt ELSE BraceExpr)
            /\ is_brace_block(context, token_type, had_line_break, is_expr_allowed)
                    = SixRules(token_type, current(context), had_line_break, is_expr_allowed)
            /\ ~panicked' ]_vars

\* A `{` was read with the BraceExpr of an object literal on top of the
\* stack, and the rules answered no.
C16_Witness ==
    /\ item = "{"
    /\ context = <<BraceStmt, BraceExpr, BraceExpr>>
    /\ token_type = TT("LBrace")
    /\ ~had_line_break

\* C17: in every call of Lexer::next the skipper is run if and only if the
\* top of the stack is not a Tpl marker, and the template-aware scan path,
\* seeded with that marker's start, is used if and only if the top of the
\* stack is a Tpl marker; so whitespace is never skipped before a token read
\* on the template-aware path.
C17_ModeByTopOfStack ==
    [][ LET top == current(context)
        IN  /\ call'.skip <=> top.kind # "Tpl"
            /\ call'.scan = "template" <=> top.kind = "Tpl"
            /\ call'.scan = "template" => call'.seed = top.start
            /\ call'.scan = "ordinary" => call'.skip
            /\ ~(call'.skip /\ call'.scan = "template") ]_vars

\* The backtick that closes a template was read on the template-aware path,
\* without a skip, seeded with the start the opening backtick recorded.
C17_Witness ==
    /\ item = "BackQuote"
    /\ call = [skip |-> FALSE, scan |-> "template", seed |-> 0]
    /\ popped = <<Tpl(0)>>
    /\ context = <<BraceStmt>>

\* C19: the expect of the `of` arm never panics: in every state reachable
\* from State::default() through Lexer::next, whenever the top of the stack
\* is ParenStmt { is_for_loop: true } token_type is Some.
C19_ForHeadHasPrevious ==
    /\ ~panicked
    /\ current(context) = ParenStmt(TRUE) => token_type # None

\* An `of` was read in the head of a for loop, and the arm answered.
C19_Witness ==
    /\ item = "of"
    /\ current(context) = ParenStmt(TRUE)
    /\ token_type = TTOther(FALSE)
    /\ is_expr_allowed
    /\ ~panicked

====
